---- MODULE Spec2Model ----
(***************************************************************************)
(* mqtt2notif: the MQTT message -> desktop notification pipeline of        *)
(* mqtt2notif.py.  The model follows on_message() statement by statement:  *)
(* exceptions are values that travel up through the try/except blocks of   *)
(* the source, JSON values keep their type, and every call into libnotify, *)
(* GdkPixbuf or Pillow that can raise is a point where the environment may *)
(* make it raise.                                                          *)
(***************************************************************************)
EXTENDS Integers, Sequences, FiniteSets, TLC

VARIABLES
    pc,             \* start, loop, callback, returned, exited (Ctrl+C), crashed
    VERBOSE,        \* module global VERBOSE
    PIL_AVAILABLE,  \* module global PIL_AVAILABLE
    msg,            \* the MQTT message handed to on_message (its payload)
    env,            \* what the collaborators did while the message was handled
    notification,   \* the Notify.Notification object on_message built, if any
    shows,          \* the calls of notification.show() made for this message
    caught,         \* the except clauses on_message entered, in order
    log,            \* the error lines on_message printed
    raised,         \* the exception on_message let escape, "none" if it returned
    delivered,      \* messages handed to on_message so far
    showCalls       \* calls of show() so far, over all messages

vars == <<pc, VERBOSE, PIL_AVAILABLE, msg, env, notification, shows, caught, log,
          raised, delivered, showCalls>>

\* ------------------------------------------------------------------ bounds
MaxMessages == 2

\* ------------------------------------------------------------ JSON values
\* A JSON value keeps its type; an integer keeps its decimal text.
JStr(s) == [t |-> "str", s |-> s]
JInt(s) == [t |-> "int", s |-> s]
JNull == [t |-> "null", s |-> ""]

\* str(x) as an f-string formats it
PyStr(x) ==
    CASE x.t = "str" -> x.s
      [] x.t = "int" -> x.s
      [] x.t = "null" -> "None"

\* bool(x): the truth value `if x:` tests
Truthy(x) ==
    CASE x.t = "str" -> x.s # ""
      [] x.t = "int" -> x.s # "0"
      [] x.t = "null" -> FALSE

\* x == "literal" in Python: a string equal to the literal, never another type
PyEq(x, lit) == x.t = "str" /\ x.s = lit

Keys == {"package", "app", "title", "text", "timestamp", "importance",
         "urgency", "category", "icon", "previewImage"}

\* ---------------------------------------------------------------- payloads
\* The bytes of a message: whether they are UTF-8, whether the text is JSON,
\* and the document the text denotes when it is.
Object(members) == [kind |-> "object", members |-> members]
NonObject(kind) == [kind |-> kind, members |-> [k \in {} |-> JNull]]

Payload(utf8, syntax, doc) == [utf8 |-> utf8, syntax |-> syntax, doc |-> doc]

\* msg.payload.decode()
Decode(payload) ==
    IF payload.utf8 THEN [exc |-> "none", val |-> payload]
    ELSE [exc |-> "UnicodeDecodeError", val |-> payload]

LoadsLenient(text) ==
    IF text.syntax THEN [exc |-> "none", val |-> text.doc]
    ELSE [exc |-> "none", val |-> Object([k \in {} |-> JNull])]

\* json.loads(text)
Loads(text) ==
    IF text.syntax THEN [exc |-> "none", val |-> text.doc]
    ELSE [exc |-> "JSONDecodeError", val |-> NonObject("none")]

\* data.get(key, default): the default only when the key is missing
Get(data, key, default) ==
    IF key \in DOMAIN data.members THEN data.members[key] ELSE default

\* data.get exists on a dict only
HasGet(data) == data.kind = "object"

\* ------------------------------------------------------------ exceptions
NoExc == "none"

\* `except json.JSONDecodeError:` then `except Exception as e:` around the
\* whole handler: every exception class raised below derives from Exception.
ExceptionClasses == {"JSONDecodeError", "UnicodeDecodeError", "AttributeError",
                     "TypeError", "binascii.Error", "GLib.Error",
                     "UnidentifiedImageError", "PILError"}

OuterCatchesOnlyJson(exc) == exc = "JSONDecodeError"

OuterCatches(exc) == exc = "JSONDecodeError" \/ exc \in ExceptionClasses

\* `except Exception as e:` around building and showing the notification
InnerCatches(exc) == exc \in ExceptionClasses

\* ------------------------------------------------------------------ fields
\* the ten locals read from the payload
Fields(data) ==
    [package   |-> Get(data, "package", JStr("unknown")),
     app       |-> Get(data, "app", JStr("Unknown App")),
     title     |-> Get(data, "title", JStr("Notification")),
     text      |-> Get(data, "text", JStr("")),
     timestamp |-> Get(data, "timestamp", JInt("0")),
     importance |-> Get(data, "importance", JInt("3")),
     urgency   |-> Get(data, "urgency", JStr("normal")),
     category  |-> Get(data, "category", JStr("")),
     icon      |-> Get(data, "icon", JNull),
     preview   |-> Get(data, "previewImage", JNull)]

\* datetime.fromtimestamp(timestamp / 1000.0).strftime(...), "Unknown" when
\* the division or the conversion raises.  Milliseconds of up to 14 digits
\* are dates before year 9999; the longer ones the model uses are not.
FormattedTime(timestamp) ==
    IF timestamp.t = "int" /\ Len(timestamp.s) <= 14 THEN timestamp.s ELSE "Unknown"

\* The `if VERBOSE:` block: the exception it raises (NoExc when it only prints)
\* and the time it prints.
\* The urgency icon lookup hashes the value, then urgency.upper() is called.
\* The timestamp has its own try/except and the f-strings format any value.
ConsoleLog(f) ==
    IF f.urgency.t # "str" THEN [exc |-> "AttributeError", time |-> ""]
    ELSE [exc |-> NoExc, time |-> FormattedTime(f.timestamp)]

\* ------------------------------------------------------------ notification
NoNotification == [created |-> FALSE, title |-> "", body |-> JNull,
                   urgency |-> "", category |-> <<>>, images |-> <<>>]

\* Notify.Notification.new(notification_title, text, None): the body is a
\* string or None
NotificationNew(title, text) ==
    IF text.t = "int" THEN [exc |-> "TypeError", val |-> NoNotification]
    ELSE [exc |-> NoExc,
          val |-> [created |-> TRUE, title |-> title, body |-> text,
                   urgency |-> "", category |-> <<>>, images |-> <<>>]]

MapUrgencyLowOnly(urgency) ==
    IF PyEq(urgency, "high") THEN "CRITICAL"
    ELSE IF PyEq(urgency, "low") THEN "LOW"
    ELSE "NORMAL"

\* the urgency if/elif/else
MapUrgency(urgency) ==
    IF PyEq(urgency, "high") THEN "CRITICAL"
    ELSE IF PyEq(urgency, "low") \/ PyEq(urgency, "minimal") THEN "LOW"
    ELSE "NORMAL"

\* `if category: notification.set_hint("category", GLib.Variant.new_string(category))`
SetCategory(n, category) ==
    IF ~Truthy(category) THEN [exc |-> NoExc, val |-> n]
    ELSE IF category.t # "str" THEN [exc |-> "TypeError", val |-> n]
    ELSE [exc |-> NoExc, val |-> [n EXCEPT !.category = <<category.s>>]]

\* ------------------------------------------------------------------ images
PngBase64 == "iVBORw0KGgo="
TextBase64 == "bm90IGltYWdl"
BadBase64 == "abc"

\* base64.b64decode(x): a TypeError for what is no string, binascii.Error
\* for wrong padding, the bytes otherwise
B64Decode(x) ==
    IF x.t # "str" THEN [exc |-> "TypeError", val |-> ""]
    ELSE CASE x.s = PngBase64 -> [exc |-> NoExc, val |-> "PNG"]
           [] x.s = TextBase64 -> [exc |-> NoExc, val |-> "not image"]
           [] x.s = "" -> [exc |-> NoExc, val |-> ""]
           [] OTHER -> [exc |-> "binascii.Error", val |-> ""]

\* GdkPixbuf.Pixbuf.new_from_stream(stream, None)
PixbufNewFromStream(bytes) ==
    IF bytes = "PNG" THEN NoExc ELSE "GLib.Error"

\* Image.open(io.BytesIO(bytes)).convert("RGBA")
ImageOpen(bytes) ==
    IF bytes = "PNG" THEN NoExc ELSE "UnidentifiedImageError"

\* notification.set_hint("image-data", GLib.Variant("(iiibiiay)", ...))
SetImageHint(e) == IF e.hintFault THEN "GLib.Error" ELSE NoExc

\* the body of a try block that decodes one image and attaches it
DecodeAndAttach(b64, e) ==
    LET d == B64Decode(b64) IN
    IF d.exc # NoExc THEN d.exc
    ELSE IF PixbufNewFromStream(d.val) # NoExc THEN PixbufNewFromStream(d.val)
    ELSE SetImageHint(e)

\* create_composite_image: "composite", or "None" when Pillow is missing or
\* anything in the try block raises
create_composite_image(icon, preview, pil, e) ==
    IF ~pil THEN "None"
    ELSE LET i == B64Decode(icon)
             p == B64Decode(preview)
             exc == IF i.exc # NoExc THEN i.exc
                    ELSE IF p.exc # NoExc THEN p.exc
                    ELSE IF ImageOpen(i.val) # NoExc THEN ImageOpen(i.val)
                    ELSE IF ImageOpen(p.val) # NoExc THEN ImageOpen(p.val)
                    ELSE IF e.pilFault THEN "PILError"
                    ELSE NoExc
         IN IF exc = NoExc THEN "composite" ELSE "None"

Handled(at, exc) == [at |-> at, exc |-> exc]

\* what an image case did: the image-data hints it set, the except clauses it
\* entered, the exception it let escape
Case(images, handled, exc) == [images |-> images, caught |-> handled, exc |-> exc]

CompositeCaseNoFallback(icon, preview, pil, e) ==
    IF create_composite_image(icon, preview, pil, e) # "None"
    THEN IF SetImageHint(e) = NoExc THEN Case(<<"composite">>, <<>>, NoExc)
         ELSE Case(<<>>, <<Handled("composite", SetImageHint(e))>>, NoExc)
    ELSE Case(<<>>, <<>>, NoExc)

\* `if preview_image_base64 and icon_base64:`
CompositeCase(icon, preview, pil, e) ==
    IF create_composite_image(icon, preview, pil, e) # "None"
    THEN IF SetImageHint(e) = NoExc THEN Case(<<"composite">>, <<>>, NoExc)
         ELSE Case(<<>>, <<Handled("composite", SetImageHint(e))>>, NoExc)
    ELSE LET x == DecodeAndAttach(preview, e) IN
         IF x = NoExc THEN Case(<<"preview">>, <<>>, NoExc)
         ELSE Case(<<>>, <<Handled("fallback", x)>>, NoExc)

\* `elif preview_image_base64:`
PreviewCase(preview, e) ==
    LET x == DecodeAndAttach(preview, e) IN
    IF x = NoExc THEN Case(<<"preview">>, <<>>, NoExc)
    ELSE Case(<<>>, <<Handled("preview", x)>>, NoExc)

IconCaseNoTry(icon, e) ==
    LET x == DecodeAndAttach(icon, e) IN
    IF x = NoExc THEN Case(<<"icon">>, <<>>, NoExc)
    ELSE Case(<<>>, <<>>, x)

\* `elif icon_base64:`
IconCase(icon, e) ==
    LET x == DecodeAndAttach(icon, e) IN
    IF x = NoExc THEN Case(<<"icon">>, <<>>, NoExc)
    ELSE Case(<<>>, <<Handled("icon", x)>>, NoExc)

NoImageCase == Case(<<>>, <<>>, NoExc)

ProcessImagesNoElif(icon, preview, pil, e) ==
    LET a == IF Truthy(preview) /\ Truthy(icon)
             THEN CompositeCase(icon, preview, pil, e) ELSE NoImageCase
        b == IF Truthy(preview) THEN PreviewCase(preview, e)
             ELSE IF Truthy(icon) THEN IconCase(icon, e)
             ELSE NoImageCase
    IN Case(a.images \o b.images, a.caught \o b.caught, b.exc)

\* the if/elif/elif chain over the two image fields
ProcessImages(icon, preview, pil, e) ==
    IF Truthy(preview) /\ Truthy(icon) THEN CompositeCase(icon, preview, pil, e)
    ELSE IF Truthy(preview) THEN PreviewCase(preview, e)
    ELSE IF Truthy(icon) THEN IconCase(icon, e)
    ELSE NoImageCase

ShowRetry(e) ==
    IF e.showFault THEN [calls |-> <<FALSE, FALSE>>, exc |-> "GLib.Error"]
    ELSE [calls |-> <<TRUE>>, exc |-> NoExc]

\* notification.show(): one call, which raises when the server refuses
Show(e) ==
    IF e.showFault THEN [calls |-> <<FALSE>>, exc |-> "GLib.Error"]
    ELSE [calls |-> <<TRUE>>, exc |-> NoExc]

\* -------------------------------------------------------------- on_message
NoFaults == [pilFault |-> FALSE, hintFault |-> FALSE, showFault |-> FALSE]

\* what one run of on_message did
Result(n, calls, handled, exc) ==
    [notification |-> n, shows |-> calls, caught |-> handled, raised |-> exc]

\* the two except clauses around the whole handler
Outer(exc) ==
    Result(NoNotification, <<>>,
           <<Handled(IF exc = "JSONDecodeError" THEN "json" ELSE "outer", exc)>>,
           IF OuterCatches(exc) THEN NoExc ELSE exc)

\* the except clause around building and showing the notification; what it
\* does not catch goes to the outer clauses
Inner(n, calls, handled, exc) ==
    IF InnerCatches(exc)
    THEN Result(n, calls, handled \o <<Handled("inner", exc)>>, NoExc)
    ELSE Result(n, calls, handled \o <<Handled("outer", exc)>>,
                IF OuterCatches(exc) THEN NoExc ELSE exc)

\* f"{app}: {title}"
NotificationTitle(f) == PyStr(f.app) \o ": " \o PyStr(f.title)

\* the inner try block: create, set urgency, category and image, show
BuildAndShow(f, pil, e) ==
    LET new == NotificationNew(NotificationTitle(f), f.text) IN
    IF new.exc # NoExc THEN Inner(new.val, <<>>, <<>>, new.exc)
    ELSE
    LET n1 == [new.val EXCEPT !.urgency = MapUrgency(f.urgency)]
        cat == SetCategory(n1, f.category)
    IN
    IF cat.exc # NoExc THEN Inner(cat.val, <<>>, <<>>, cat.exc)
    ELSE
    LET img == ProcessImages(f.icon, f.preview, pil, e)
        n2 == [cat.val EXCEPT !.images = img.images]
    IN
    IF img.exc # NoExc THEN Inner(n2, <<>>, img.caught, img.exc)
    ELSE
    LET sh == Show(e) IN
    IF sh.exc # NoExc THEN Inner(n2, sh.calls, img.caught, sh.exc)
    ELSE Result(n2, sh.calls, img.caught, NoExc)

\* on_message(client, userdata, msg) with the globals VERBOSE and PIL_AVAILABLE
on_message(payload, verbose, pil, e) ==
    LET text == Decode(payload) IN
    IF text.exc # NoExc THEN Outer(text.exc)
    ELSE
    LET data == Loads(text.val) IN
    IF data.exc # NoExc THEN Outer(data.exc)
    ELSE IF ~HasGet(data.val) THEN Outer("AttributeError")
    ELSE
    LET f == Fields(data.val) IN
    IF verbose /\ ConsoleLog(f).exc # NoExc THEN Outer(ConsoleLog(f).exc)
    ELSE BuildAndShow(f, pil, e)

\* the error lines printed: the image cases print only when VERBOSE
Printed(handled, verbose) ==
    SelectSeq(handled, LAMBDA c : c.at \in {"inner", "json", "outer"} \/ verbose)

\* ------------------------------------------------------- messages modelled
Absent == [t |-> "absent", s |-> ""]

\* the JSON object whose members are the fields of `choice` that are not Absent
Members(choice) ==
    [k \in {x \in DOMAIN choice : choice[x] # Absent} |-> choice[k]]

UrgencyValues == {Absent, JStr("high"), JStr("low"), JStr("minimal"), JStr("LOW"),
                  JStr("High"), JStr(""), JStr("urgent"), JInt("5")}
CategoryValues == {Absent, JStr(""), JStr("email"), JInt("5")}
ImageValues == {Absent, JStr(""), JStr(PngBase64), JStr(BadBase64), JStr(TextBase64)}

\* messages that vary the text fields and carry no urgency, category or image
TextObjects ==
    { Members(c) : c \in
        [app : {Absent, JStr("Mail"), JInt("5")},
         title : {Absent, JStr("New message"), JNull},
         text : {Absent, JStr("Hi"), JInt("5")},
         timestamp : {Absent, JInt("1700000000000"),
                      JInt("99999999999999999999"), JStr("x")}] }

\* messages of one app that vary urgency, category and the two images
PresentationObjects ==
    { Members(c) : c \in
        [package : {JStr("com.mail")}, app : {JStr("Mail")},
         title : {JStr("New message")}, text : {JStr("Hi")},
         timestamp : {JInt("1700000000000")}, importance : {JInt("4")},
         urgency : UrgencyValues, category : CategoryValues,
         icon : ImageValues, previewImage : ImageValues] }

Payloads ==
    { Payload(TRUE, TRUE, Object(m)) : m \in TextObjects \cup PresentationObjects }
    \cup { Payload(TRUE, TRUE, NonObject(k)) : k \in {"array", "string", "number"} }
    \cup { Payload(TRUE, FALSE, NonObject("none")),     \* b"not json"
           Payload(FALSE, FALSE, NonObject("none")) }   \* b"\xff"

NoMsg == Payload(FALSE, FALSE, NonObject("no message"))

Faults == [pilFault : BOOLEAN, hintFault : BOOLEAN, showFault : BOOLEAN]

\* ------------------------------------------------------------ the process
Init ==
    /\ pc = "start"
    /\ VERBOSE = TRUE
    /\ PIL_AVAILABLE \in BOOLEAN
    /\ msg = NoMsg
    /\ env = NoFaults
    /\ notification = NoNotification
    /\ shows = <<>>
    /\ caught = <<>>
    /\ log = <<>>
    /\ raised = NoExc
    /\ delivered = 0
    /\ showCalls = 0

\* main(): --daemon clears VERBOSE, then the client loops forever
Main(daemon) ==
    /\ pc = "start"
    /\ pc' = "loop"
    /\ VERBOSE' = IF daemon THEN FALSE ELSE VERBOSE
    /\ UNCHANGED <<PIL_AVAILABLE, msg, env, notification, shows, caught, log, raised,
                   delivered, showCalls>>

\* client.loop_forever() takes the next message of the topic and calls on_message
Receive(payload) ==
    /\ pc = "loop"
    /\ delivered < MaxMessages
    /\ pc' = "callback"
    /\ msg' = payload
    /\ delivered' = delivered + 1
    /\ UNCHANGED <<VERBOSE, PIL_AVAILABLE, env, notification, shows, caught, log,
                   raised, showCalls>>

\* on_message runs from its first line to its return or to the exception it raises
OnMessage ==
    /\ pc = "callback"
    /\ \E e \in Faults :
         LET r == on_message(msg, VERBOSE, PIL_AVAILABLE, e) IN
         /\ env' = e
         /\ notification' = r.notification
         /\ shows' = r.shows
         /\ caught' = r.caught
         /\ log' = Printed(r.caught, VERBOSE)
         /\ raised' = r.raised
         /\ showCalls' = showCalls + Len(r.shows)
    /\ pc' = "returned"
    /\ UNCHANGED <<VERBOSE, PIL_AVAILABLE, msg, delivered>>

\* back in loop_forever: the locals of on_message are gone; an exception that
\* left on_message leaves loop_forever too and main() exits on it
Return ==
    /\ pc = "returned"
    /\ pc' = IF raised = NoExc THEN "loop" ELSE "crashed"
    /\ msg' = NoMsg
    /\ env' = NoFaults
    /\ notification' = NoNotification
    /\ shows' = <<>>
    /\ caught' = <<>>
    /\ log' = <<>>
    /\ UNCHANGED <<VERBOSE, PIL_AVAILABLE, raised, delivered, showCalls>>

\* KeyboardInterrupt while waiting in loop_forever
Interrupt ==
    /\ pc = "loop"
    /\ pc' = "exited"
    /\ UNCHANGED <<VERBOSE, PIL_AVAILABLE, msg, env, notification, shows, caught, log,
                   raised, delivered, showCalls>>

Next ==
    \/ \E daemon \in BOOLEAN : Main(daemon)
    \/ \E payload \in Payloads : Receive(payload)
    \/ OnMessage
    \/ Return
    \/ Interrupt

Spec == Init /\ [][Next]_vars

\* ------------------------------------------------------------- properties
\* on_message has run on msg and has not yet returned to the loop
Returned == pc = "returned"

IsObject == msg.utf8 /\ msg.syntax /\ msg.doc.kind = "object"

\* the member of the message's object, Absent when the key is missing
Field(k) ==
    IF IsObject /\ k \in DOMAIN msg.doc.members THEN msg.doc.members[k] ELSE Absent

\* an image field counts as present when it is a non-empty value
Present(v) == v # Absent /\ Truthy(v)

ValidImage(v) == v = JStr(PngBase64)

\* the creation and the category step went through, so the image step ran
ImageStepReached ==
    /\ notification.created
    /\ Present(Field("category")) => notification.category # <<>>

\* the image the case in force would attach
DisplayedSource ==
    IF Present(Field("previewImage")) THEN Field("previewImage") ELSE Field("icon")

\* that image cannot be decoded, or attaching it fails
ImageFails ==
    /\ Present(Field("icon")) \/ Present(Field("previewImage"))
    /\ ~ValidImage(DisplayedSource) \/ env.hintFault

\* create_composite_image has nothing to return
CompositeNone ==
    \/ ~PIL_AVAILABLE
    \/ ~ValidImage(Field("icon"))
    \/ ~ValidImage(Field("previewImage"))
    \/ env.pilFault

\* C1: whenever on_message reaches the notification step, the urgency set is
\* CRITICAL exactly when the urgency field is the string "high", LOW exactly
\* when it is "low" or "minimal", and NORMAL for every other value: missing,
\* empty, unrecognized, case-mismatched ("LOW", "High") or not a string.
C1_UrgencyMapping ==
    (Returned /\ notification.created) =>
        LET u == Field("urgency") IN
        /\ notification.urgency = "CRITICAL" <=> u = JStr("high")
        /\ notification.urgency = "LOW" <=> u \in {JStr("low"), JStr("minimal")}
        /\ notification.urgency = "NORMAL" <=>
               u \notin {JStr("high"), JStr("low"), JStr("minimal")}

C1_Witness ==
    /\ Returned /\ shows = <<TRUE>>
    /\ Field("urgency") = JStr("LOW") /\ notification.urgency = "NORMAL"

\* C2: the notification handed to show() carries at most one image-data
\* attachment, chosen by four exclusive cases: icon and preview present -> the
\* composite, when it is built and attached, is the only image; preview alone
\* -> the decoded preview; icon alone -> the decoded icon; neither -> none.
C2_ImageCases ==
    (Returned /\ shows # <<>>) =>
        LET icon == Field("icon")
            preview == Field("previewImage")
            images == notification.images
            attaches == ~env.hintFault
        IN
        /\ Len(images) <= 1
        /\ (Present(icon) /\ Present(preview)) =>
              /\ images \in {<<>>, <<"composite">>, <<"preview">>}
              /\ (~CompositeNone /\ attaches) => images = <<"composite">>
              /\ CompositeNone => images # <<"composite">>
        /\ (Present(preview) /\ ~Present(icon)) =>
              /\ images \in {<<>>, <<"preview">>}
              /\ (ValidImage(preview) /\ attaches) => images = <<"preview">>
        /\ (Present(icon) /\ ~Present(preview)) =>
              /\ images \in {<<>>, <<"icon">>}
              /\ (ValidImage(icon) /\ attaches) => images = <<"icon">>
        /\ (~Present(icon) /\ ~Present(preview)) => images = <<>>

C2_Witness ==
    /\ Returned /\ shows = <<TRUE>>
    /\ ValidImage(Field("icon")) /\ ValidImage(Field("previewImage"))
    /\ notification.images = <<"composite">>

C4_CompositeFallback ==
    (Returned /\ ImageStepReached /\ CompositeNone
       /\ Present(Field("icon")) /\ Present(Field("previewImage"))) =>
        /\ Len(shows) = 1
        /\ raised = NoExc
        /\ notification.images \in {<<>>, <<"preview">>}
        /\ (ValidImage(Field("previewImage")) /\ ~env.hintFault)
               => notification.images = <<"preview">>
        /\ ~ValidImage(Field("previewImage")) => notification.images = <<>>

C4_Witness ==
    /\ Returned /\ shows = <<TRUE>>
    /\ PIL_AVAILABLE
    /\ Field("icon") = JStr(TextBase64) /\ ValidImage(Field("previewImage"))
    /\ notification.images = <<"preview">>

\* C5: a payload that is not valid JSON text produces no notification: no
\* notification object is created, show() is not called, the message is logged
\* once (whatever VERBOSE is) and on_message returns normally.
C5_MalformedPayloadDropped ==
    (Returned /\ ~(msg.utf8 /\ msg.syntax)) =>
        /\ notification = NoNotification
        /\ shows = <<>>
        /\ raised = NoExc
        /\ Len(log) = 1
        /\ msg.utf8 => caught = <<Handled("json", "JSONDecodeError")>>

C5_Witness ==
    /\ Returned /\ msg.utf8 /\ ~msg.syntax
    /\ ~VERBOSE
    /\ log = <<Handled("json", "JSONDecodeError")>>

\* C7: no exception leaves on_message, whatever the payload and whatever the
\* compositor or the notification sink do, so the loop is never left on an
\* error and the next message is handled.
C7_NothingEscapes ==
    /\ raised = NoExc
    /\ pc # "crashed"

C7_Witness ==
    /\ Returned /\ delivered >= 2
    /\ msg.doc.kind = "array"
    /\ caught = <<Handled("outer", "AttributeError")>>
    /\ showCalls = 1

Typed(k, type, default) ==
    IF Field(k) # Absent /\ Field(k).t = type THEN Field(k) ELSE default

\* C6: for every JSON object, a field that is missing or of the wrong type is
\* replaced by its default, and a notification titled "{app}: {title}" is
\* produced from the defaulted values.
C6_DefaultsApplied ==
    (Returned /\ IsObject) =>
        /\ notification.created
        /\ Len(shows) = 1
        /\ notification.title =
               Typed("app", "str", JStr("Unknown App")).s \o ": "
                   \o Typed("title", "str", JStr("Notification")).s
        /\ notification.body = Typed("text", "str", JStr(""))
        /\ notification.urgency = MapUrgency(Typed("urgency", "str", JStr("normal")))
        /\ notification.category =
               IF Typed("category", "str", JStr("")).s = "" THEN <<>>
               ELSE <<Typed("category", "str", JStr("")).s>>

\* the message with its category member set to c, or removed when c is Absent
WithCategory(c) ==
    LET m == msg.doc.members
        keys == (DOMAIN m \ {"category"})
                    \cup (IF c = Absent THEN {} ELSE {"category"})
    IN Payload(TRUE, TRUE, Object([k \in keys |-> IF k = "category" THEN c ELSE m[k]]))

\* C9: the category hint is set exactly when category is non-empty, and two
\* messages that differ only in category are both shown, with the same title,
\* body, urgency and image.
C9_CategoryIndependent ==
    (Returned /\ IsObject) =>
        /\ notification.created =>
              (notification.category # <<>> <=> Present(Field("category")))
        /\ \A c \in CategoryValues :
              LET r == on_message(WithCategory(c), VERBOSE, PIL_AVAILABLE, env) IN
              /\ r.shows = shows
              /\ r.notification.title = notification.title
              /\ r.notification.body = notification.body
              /\ r.notification.urgency = notification.urgency
              /\ r.notification.images = notification.images

\* C10: with VERBOSE true and with VERBOSE false on_message shows the same
\* notification (title, body, urgency, category hint, image) or shows none in
\* both runs.
C10_VerboseOnlyPrints ==
    Returned =>
        LET a == on_message(msg, TRUE, PIL_AVAILABLE, env)
            b == on_message(msg, FALSE, PIL_AVAILABLE, env)
        IN /\ a.notification = b.notification
           /\ a.shows = b.shows
           /\ a.raised = b.raised

====
